---- MODULE Spec2Model ----
(***************************************************************************)
(* Model of docker/mock-api/app.py: the mobile authentication mock API.    *)
(*                                                                         *)
(* Every request is handled by an independent worker; workers share only   *)
(* the two external stores (Redis and the test_users table).  A handler is *)
(* therefore split at its store round-trips: one action per round-trip     *)
(* together with the local computation that follows it.  The clock counts  *)
(* ticks of TickSeconds seconds; a TTL in seconds is rounded up to ticks.   *)
(***************************************************************************)
EXTENDS Integers, Sequences, FiniteSets, TLC

\* ---------------------------------------------------------------- constants
JWT_EXPIRATION_HOURS == 24
MAX_LOGIN_ATTEMPTS == 5
CAPTCHA_THRESHOLD == 3
SESSION_TIMEOUT == 30
BLACKLIST_TTL == 86400
CAPTCHA_TTL == 300
LOGIN_RATE_LIMIT == 10
LOGIN_RATE_WINDOW == 300
SecondsPerHour == 3600
SecondsPerMinute == 60

\* ------------------------------------------------------------------- bounds
TickSeconds == 43200
MaxTime == 4
MaxClock == 3
MaxLimit == 2
MaxWindowTicks == 2
MaxCaptchas == 2
MaxTokens == 1
SubSecond == 2
MaxSubSteps == 3

Workers == {"w1", "w2"}
Usernames == {"alice", "bob"}
Idents == Usernames
CaptchaIds == 1..MaxCaptchas
TokenIds == 1..MaxTokens

VARIABLES
    now,        \* wall clock, in ticks
    acct,       \* test_users rows, by (normalised) username
    rate,       \* Redis rate_limit:<identifier> keys
    captcha,    \* Redis captcha:<id> keys
    nextCap,    \* number of captcha ids handed out so far (uuid4 is fresh)
    tokens,     \* the JWTs issued so far, by jti
    sessions,   \* Redis session:<id> keys
    blacklist,  \* Redis blacklist:<jti> keys
    nextTok,    \* number of tokens / session ids handed out so far
    rlLimit,    \* limit argument of the stand-alone check_rate_limit calls
    rlWindow,   \* window argument (seconds) of the stand-alone calls
    pc,         \* position of each worker in its handler
    loc,        \* locals of the handler a worker runs
    out,        \* the response or return value produced by the last step, if any
    admits,     \* history: per identifier, calls admitted since the key last expired
    nfail,      \* history: per account, failed credential checks since the last success
    capWins,    \* history: per captcha id, verify_captcha calls that returned True
    refused,    \* history: per identifier, whether a call was ever refused
    revoked,    \* history: per jti, whether blacklist_token stored its entry
    loggedOut,  \* history: per jti, whether a logout carrying it and a session_id succeeded
    closed,     \* history: per session id, whether a logout naming it succeeded
    seen        \* history: per username, the last response a client got (when recorded)

stores == <<acct, rate, captcha, nextCap, tokens, sessions, blacklist, nextTok>>
history == <<admits, nfail, capWins, refused, revoked, loggedOut, closed>>
vars == <<now, stores, rlLimit, rlWindow, pc, loc, out, history, seen>>

\* The number of tokens (and session ids) the stores have room for.
TokenCap == Cardinality(DOMAIN tokens)

\* ------------------------------------------------------------ Redis helpers
\* A duration in seconds on the clock (rounded up to whole ticks).
Ticks(seconds) == (seconds + TickSeconds - 1) \div TickSeconds

NoTTL == 0 - 1
NilRate == [val |-> 0, exp |-> NoTTL]
NilCaptcha == [ans |-> "", exp |-> NoTTL]
NilEntry == [user |-> "nobody", exp |-> NoTTL]
NilToken == [sub |-> "nobody", iat |-> 0, exp |-> 0]

\* redis GET of a counter: None is rendered as 0 (a stored counter is >= 1).
RateGet(key) == rate[key].val

\* redis SETEX key window 1
RateSetex(key, window) ==
    [rate EXCEPT ![key] = [val |-> 1, exp |-> now + Ticks(window)]]

\* redis INCR key: creates the key at 1 WITHOUT expiry when it is absent,
\* otherwise adds one and keeps the expiry.
RateIncr(key) ==
    [rate EXCEPT ![key] = [val |-> @.val + 1, exp |-> @.exp]]

\* Keys whose expiry has been reached disappear.
ExpireRate(r, t) ==
    [k \in Idents |->
        IF r[k].val > 0 /\ r[k].exp # NoTTL /\ r[k].exp <= t THEN NilRate ELSE r[k]]

ExpireCaptcha(c, t) ==
    [i \in CaptchaIds |->
        IF c[i].exp # NoTTL /\ c[i].exp <= t THEN NilCaptcha ELSE c[i]]

ExpireEntries(e, t) ==
    [i \in DOMAIN e |->
        IF e[i].exp # NoTTL /\ e[i].exp <= t THEN NilEntry ELSE e[i]]

\* ------------------------------------------------------------ worker locals
NoLoc == [kind |-> "none", user |-> "nobody", cur |-> "none", limit |-> 0, window |-> 0,
          cap |-> 0, snap |-> 0, capOK |-> FALSE, tok |-> 0, sid |-> 0]
Resp(w, code) ==
    [kind |-> loc[w].kind, code |-> code, snap |-> loc[w].snap, remaining |-> 0 - 1,
     cap |-> 0, tok |-> 0, sid |-> 0]
NoResp ==
    [kind |-> "none", code |-> "NONE", snap |-> 0, remaining |-> 0 - 1,
     cap |-> 0, tok |-> 0, sid |-> 0]

\* The responses of the clients are not recorded / recorded from the start.
NotSeen == [on |-> FALSE, by |-> [u \in Usernames |-> [n |-> 0, cap |-> 0, resp |-> NoResp]]]
NoneSeen == [NotSeen EXCEPT !.on = TRUE]

\* The handler returns r: the worker is free for the next request.
Finish(w, r) ==
    /\ pc' = [pc EXCEPT ![w] = "idle"]
    /\ out' = r
    /\ loc' = [loc EXCEPT ![w] = NoLoc]
    /\ seen' = IF seen.on
               THEN [seen EXCEPT !.by[loc[w].user] =
                        [n |-> @.n + 1, cap |-> loc[w].cap, resp |-> r]]
               ELSE seen

\* The handler goes on to its next round-trip with locals l.
Goto(w, label, l) ==
    /\ pc' = [pc EXCEPT ![w] = label]
    /\ loc' = [loc EXCEPT ![w] = l]
    /\ out' = NoResp
    /\ seen' = seen

\* ------------------------------------------------- check_rate_limit (116-129)
\* The comparison off by one (admits at the limit).
RateBelowOrAt(cur, limit) == cur <= limit

\* Line 125: int(current) < limit
RateBelow(cur, limit) == cur < limit

\* Lines 122-128: the branch taken on the value read.
RateClass(cur, limit) ==
    IF cur = 0 THEN "none" ELSE IF RateBelow(cur, limit) THEN "below" ELSE "full"

\* First round-trip: current = redis_client.get(key), and the branch chosen.
RateRead(w, l) ==
    /\ pc[w] = "idle"
    /\ Goto(w, "rl", [l EXCEPT !.cur = RateClass(RateGet(l.user), l.limit)])
    /\ UNCHANGED <<now, stores, rlLimit, rlWindow, history>>

\* Second round-trip: setex / incr / nothing.
RateWrite(w) ==
    IF loc[w].cur = "none" THEN RateSetex(loc[w].user, loc[w].window)
    ELSE IF loc[w].cur = "below" THEN RateIncr(loc[w].user)
    ELSE rate

\* A stand-alone call of check_rate_limit(identifier, limit, window).
CheckRateLimitStart(w, ident) ==
    RateRead(w, [NoLoc EXCEPT !.kind = "ratelimit", !.user = ident,
                              !.limit = rlLimit, !.window = rlWindow])

CheckRateLimitFinish(w) ==
    /\ pc[w] = "rl"
    /\ loc[w].kind = "ratelimit"
    /\ rate' = RateWrite(w)
    /\ admits' = IF loc[w].cur = "full" THEN admits
                 ELSE [admits EXCEPT ![loc[w].user] = @ + 1]
    /\ refused' = IF loc[w].cur = "full"
                  THEN [refused EXCEPT ![loc[w].user] = TRUE] ELSE refused
    /\ Finish(w, Resp(w, IF loc[w].cur = "full" THEN "FALSE" ELSE "TRUE"))
    /\ UNCHANGED <<now, rlLimit, rlWindow, acct, captcha, nextCap, tokens, sessions,
                   blacklist, nextTok, nfail, capWins, revoked, loggedOut, closed>>

\* --------------------------------------------- generate_captcha (131-146)
\* redis SETEX captcha:<fresh uuid> 300 <num1 + num2>; yields the new id.  Only
\* equality with the stored sum is ever tested, so the sum is written "sum".
GenerateCaptcha ==
    /\ nextCap < MaxCaptchas
    /\ nextCap' = nextCap + 1
    /\ captcha' = [captcha EXCEPT ![nextCap + 1] =
                      [ans |-> "sum", exp |-> now + Ticks(CAPTCHA_TTL)]]
    /\ capWins' = [capWins EXCEPT ![nextCap + 1] = 0]

\* ----------------------------------------------- verify_captcha (148-155)
\* What the client sends as captcha_answer: the sum, the sum padded with
\* blanks, or something else; str(user_answer).strip() removes the padding.
UserAnswers == {"sum", " sum ", "other"}
Strip(answer) == IF answer = " sum " THEN "sum" ELSE answer

\* redis GET captcha:<id>: the stored answer, or nothing for an id that has
\* expired or was consumed.
CaptchaGet(id) == captcha[id]

\* Line 152: correct_answer and str(user_answer).strip() == correct_answer
CaptchaMatches(stored, answer) == stored.ans # "" /\ Strip(answer) = stored.ans

\* redis DELETE captcha:<id>
CaptchaDelete(id) == [captcha EXCEPT ![id] = NilCaptcha]

\* ---------------------------------------------- generate_jwt_token (75-87)
Token(user) ==
    [sub |-> user, iat |-> now, exp |-> now + Ticks(JWT_EXPIRATION_HOURS * SecondsPerHour)]

\* Token and session of a successful authentication: jwt.encode of a payload
\* with a fresh jti, then SETEX session:<fresh uuid> 1800 <session data>.
OpenSession(w, user) ==
    /\ nextTok < TokenCap
    /\ nextTok' = nextTok + 1
    /\ tokens' = [tokens EXCEPT ![nextTok + 1] = Token(user)]
    /\ sessions' = [sessions EXCEPT ![nextTok + 1] =
                       [user |-> user,
                        exp |-> now + Ticks(SESSION_TIMEOUT * SecondsPerMinute)]]
    /\ Finish(w, [Resp(w, "SUCCESS") EXCEPT !.tok = nextTok + 1, !.sid = nextTok + 1])

\* Tokens promised to requests that passed their credential check.
Pending == Cardinality({w \in Workers : pc[w] \in {"session", "bsession"}})

\* ------------------------------------------------------------ login (249-429)
\* username is the normalised (stripped, lower-cased) name; cap is the
\* captcha_id of the request, 0 when captcha_id or captcha_answer is missing,
\* else an id handed out earlier (a made-up id behaves as a consumed one).
\* Lines 262-271: the first round-trip of check_rate_limit(ip:username, 10, 300).
LoginStart(w, user, cap) ==
    /\ cap <= nextCap
    /\ RateRead(w, [NoLoc EXCEPT !.kind = "login", !.user = user, !.cap = cap,
                              !.limit = LOGIN_RATE_LIMIT, !.window = LOGIN_RATE_WINDOW])

\* The refusal of the limiter ignored.
LoginRateLimitIgnored(w) ==
    /\ pc[w] = "rl"
    /\ loc[w].kind = "login"
    /\ rate' = RateWrite(w)
    /\ Goto(w, "lookup", [loc[w] EXCEPT !.cur = "none"])
    /\ UNCHANGED <<now, rlLimit, rlWindow, acct, captcha, nextCap, tokens, sessions,
                   blacklist, nextTok, history>>

\* Lines 271-277: the second round-trip, and RATE_LIMITED on refusal.
LoginRateLimit(w) ==
    /\ pc[w] = "rl"
    /\ loc[w].kind = "login"
    /\ rate' = RateWrite(w)
    /\ IF loc[w].cur = "full"
       THEN Finish(w, Resp(w, "RATE_LIMITED"))
       ELSE Goto(w, "lookup", [loc[w] EXCEPT !.cur = "none"])
    /\ UNCHANGED <<now, rlLimit, rlWindow, acct, captcha, nextCap, tokens, sessions,
                   blacklist, nextTok, history>>

\* The gate one failed attempt late.
CaptchaNeededLate(failed) == failed > CAPTCHA_THRESHOLD

\* Line 328: failed_attempts >= CAPTCHA_THRESHOLD
CaptchaNeeded(failed) == failed >= CAPTCHA_THRESHOLD

\* Every name taken for an account.
UserFoundAlways(row) == TRUE

\* Lines 288-290: cursor.fetchone() returned a row.
UserFound(row) == row.exists

\* No row taken for a locked one.
AccountLockedNever(row) == FALSE

\* Lines 317 and 487: user_data['is_locked'] of the row read.
AccountLocked(row) == row.locked

\* Lines 279-336: SELECT the row, then the checks made on the row read.
LoginLookup(w) ==
    /\ pc[w] = "lookup"
    /\ LET row == acct[loc[w].user] IN
       IF ~UserFound(row) THEN Finish(w, Resp(w, "INVALID_CREDENTIALS"))
       ELSE IF ~row.active THEN Finish(w, Resp(w, "ACCOUNT_INACTIVE"))
       ELSE IF AccountLocked(row) THEN Finish(w, Resp(w, "ACCOUNT_LOCKED"))
       ELSE IF CaptchaNeeded(row.failed)
            THEN IF loc[w].cap = 0
                 THEN Goto(w, "capreq", [loc[w] EXCEPT !.snap = row.failed])
                 ELSE Goto(w, "capget", [loc[w] EXCEPT !.snap = row.failed])
            ELSE Goto(w, "cred", [loc[w] EXCEPT !.snap = row.failed])
    /\ UNCHANGED <<now, stores, rlLimit, rlWindow, history>>

\* Lines 329-336: no captcha_id or no captcha_answer.
LoginCaptchaRequired(w) ==
    /\ pc[w] = "capreq"
    /\ GenerateCaptcha
    /\ Finish(w, [Resp(w, "CAPTCHA_REQUIRED") EXCEPT !.cap = nextCap + 1])
    /\ UNCHANGED <<now, rlLimit, rlWindow, acct, rate, tokens, sessions, blacklist,
                   nextTok, admits, nfail, refused, revoked, loggedOut, closed>>

\* Line 338, first round-trip of verify_captcha: GET and compare.
LoginCaptchaGet(w) ==
    /\ pc[w] = "capget"
    /\ \E answer \in UserAnswers :
          IF CaptchaMatches(CaptchaGet(loc[w].cap), answer)
          THEN Goto(w, "capdel", loc[w])
          ELSE Goto(w, "capinv", loc[w])
    /\ UNCHANGED <<now, stores, rlLimit, rlWindow, history>>

\* Second round-trip of verify_captcha: DELETE, return True.
LoginCaptchaDelete(w) ==
    /\ pc[w] = "capdel"
    /\ captcha' = CaptchaDelete(loc[w].cap)
    /\ capWins' = [capWins EXCEPT ![loc[w].cap] = @ + 1]
    /\ Goto(w, "cred", [loc[w] EXCEPT !.capOK = TRUE])
    /\ UNCHANGED <<now, rlLimit, rlWindow, acct, rate, nextCap, tokens, sessions,
                   blacklist, nextTok, admits, nfail, refused, revoked, loggedOut, closed>>

\* The rejection that also consumes the challenge the answer was checked against.
LoginCaptchaInvalidConsumes(w) ==
    /\ pc[w] = "capinv"
    /\ nextCap < MaxCaptchas
    /\ nextCap' = nextCap + 1
    /\ captcha' = [CaptchaDelete(loc[w].cap) EXCEPT ![nextCap + 1] =
                      [ans |-> "sum", exp |-> now + Ticks(CAPTCHA_TTL)]]
    /\ capWins' = [capWins EXCEPT ![nextCap + 1] = 0]
    /\ Finish(w, [Resp(w, "INVALID_CAPTCHA") EXCEPT !.cap = nextCap + 1])
    /\ UNCHANGED <<now, rlLimit, rlWindow, acct, rate, tokens, sessions, blacklist,
                   nextTok, admits, nfail, refused, revoked, loggedOut, closed>>

\* Lines 338-346: verify_captcha returned False.
LoginCaptchaInvalid(w) ==
    /\ pc[w] = "capinv"
    /\ GenerateCaptcha
    /\ Finish(w, [Resp(w, "INVALID_CAPTCHA") EXCEPT !.cap = nextCap + 1])
    /\ UNCHANGED <<now, rlLimit, rlWindow, acct, rate, tokens, sessions, blacklist,
                   nextTok, admits, nfail, refused, revoked, loggedOut, closed>>

\* The UPDATE with the count taken from the row read earlier (a lost update).
FailedLoginFromSnapshot(row, snap) ==
    [row EXCEPT !.failed = snap + 1, !.locked = (snap + 1 >= MAX_LOGIN_ATTEMPTS)]

\* The UPDATE that locks one attempt late.
FailedLoginLate(row, snap) ==
    [row EXCEPT !.failed = @ + 1, !.locked = (row.failed + 1 > MAX_LOGIN_ATTEMPTS)]

\* Lines 351-357: UPDATE test_users SET failed_login_attempts =
\* failed_login_attempts + 1, is_locked = (failed_login_attempts + 1 >= 5),
\* one statement on the stored row; snap is the count read by the SELECT.
FailedLogin(row, snap) ==
    [row EXCEPT !.failed = @ + 1, !.locked = (row.failed + 1 >= MAX_LOGIN_ATTEMPTS)]

\* The reset that forgets to clear the lock.
ResetLoginKeepLock(row) == [row EXCEPT !.failed = 0]

\* The reset that clears the lock but keeps the count.
ResetLoginKeepCount(row) == [row EXCEPT !.locked = FALSE]

\* Lines 377-381: UPDATE test_users SET failed_login_attempts = 0, is_locked = false.
ResetLogin(row) == [row EXCEPT !.failed = 0, !.locked = FALSE]

\* Lines 349-374: check_password_hash fails.
LoginWrongPassword(w) ==
    /\ pc[w] = "cred"
    /\ acct' = [acct EXCEPT ![loc[w].user] = FailedLogin(@, loc[w].snap)]
    /\ nfail' = [nfail EXCEPT ![loc[w].user] = @ + 1]
    /\ IF loc[w].snap + 1 >= MAX_LOGIN_ATTEMPTS
       THEN Finish(w, Resp(w, "ACCOUNT_LOCKED"))
       ELSE Finish(w, [Resp(w, "INVALID_CREDENTIALS") EXCEPT
                          !.remaining = MAX_LOGIN_ATTEMPTS - (loc[w].snap + 1)])
    /\ UNCHANGED <<now, rlLimit, rlWindow, rate, captcha, nextCap, tokens, sessions,
                   blacklist, nextTok, admits, capWins, refused, revoked, loggedOut, closed>>

\* Lines 349, 376-383: check_password_hash succeeds.
LoginRightPassword(w) ==
    /\ pc[w] = "cred"
    /\ nextTok + Pending < TokenCap
    /\ acct' = [acct EXCEPT ![loc[w].user] = ResetLogin(@)]
    /\ nfail' = [nfail EXCEPT ![loc[w].user] = 0]
    /\ Goto(w, "session", loc[w])
    /\ UNCHANGED <<now, rlLimit, rlWindow, rate, captcha, nextCap, tokens, sessions,
                   blacklist, nextTok, admits, capWins, refused, revoked, loggedOut, closed>>

\* Lines 385-421: token, session record, response.
LoginSession(w) ==
    /\ pc[w] = "session"
    /\ OpenSession(w, loc[w].user)
    /\ UNCHANGED <<now, rlLimit, rlWindow, acct, rate, captcha, nextCap, blacklist,
                   history>>

\* Lines 423-429: a round-trip to a store raises (check_rate_limit, the SELECT,
\* generate_captcha, verify_captcha, an UPDATE or the session SETEX); nothing is
\* written by the failed call and the handler answers INTERNAL_ERROR.
LoginStoreFails(w) ==
    /\ pc[w] # "idle"
    /\ loc[w].kind = "login"
    /\ Finish(w, Resp(w, "INTERNAL_ERROR"))
    /\ UNCHANGED <<now, stores, rlLimit, rlWindow, history>>

\* ------------------------------------------------- biometric_auth (431-566)
\* Lines 436-499 and 506: one SELECT (no check_rate_limit call), the checks on
\* the row, and the comparison of the template.
BiometricLookup(w, user) ==
    /\ pc[w] = "idle"
    /\ LET row == acct[user]
           l == [NoLoc EXCEPT !.kind = "biometric", !.user = user]
           Reject(code) == Finish(w, [Resp(w, code) EXCEPT !.kind = "biometric"])
       IN
       \/ /\ ~row.exists
          /\ Reject("BIOMETRIC_NOT_ENROLLED")
       \/ /\ row.exists /\ ~row.active
          /\ Reject("ACCOUNT_INACTIVE")
       \/ /\ row.exists /\ row.active /\ AccountLocked(row)
          /\ Reject("ACCOUNT_LOCKED")
       \/ /\ row.exists /\ row.active /\ ~AccountLocked(row) /\ ~row.enrolled
          /\ Reject("BIOMETRIC_NOT_ENROLLED")
       \/ /\ row.exists /\ row.active /\ ~AccountLocked(row) /\ row.enrolled
          /\ Reject("BIOMETRIC_MISMATCH")
       \/ /\ row.exists /\ row.active /\ ~AccountLocked(row) /\ row.enrolled
          /\ nextTok + Pending < TokenCap
          /\ Goto(w, "bsession", l)
    /\ UNCHANGED <<now, stores, rlLimit, rlWindow, history>>

\* Lines 507-548: UPDATE biometric_test_data.last_used, token, session record.
BiometricSession(w) ==
    /\ pc[w] = "bsession"
    /\ OpenSession(w, loc[w].user)
    /\ UNCHANGED <<now, rlLimit, rlWindow, acct, rate, captcha, nextCap, blacklist,
                   history>>

\* Lines 559-566: the session SETEX (or the UPDATE before it) raises; the
\* handler answers INTERNAL_ERROR, the token it built is never sent.
BiometricStoreFails(w) ==
    /\ pc[w] = "bsession"
    /\ Finish(w, Resp(w, "INTERNAL_ERROR"))
    /\ UNCHANGED <<now, stores, rlLimit, rlWindow, history>>

\* ----------------------------------------------- verify_jwt_token (89-105)
\* jwt.decode: a token this server signed (a bearer value that is no issued
\* token fails the signature check) whose exp has not been reached.
Issued(t) == t \in DOMAIN tokens /\ t <= nextTok
Decodes(t) == Issued(t) /\ now < tokens[t].exp

\* Lines 93-99: the payload, unless decoding fails or blacklist:<jti> exists.
VerifyJwt(t) == Decodes(t) /\ blacklist[t] = NilEntry

\* ------------------------------------------------- blacklist_token (107-114)
\* The entry with a TTL one tick short of the token's lifetime.
BlacklistEntryShort(t) ==
    [user |-> tokens[t].sub, exp |-> now + Ticks(BLACKLIST_TTL) - 1]

\* Line 112: SETEX blacklist:<jti> 86400 "blacklisted"
BlacklistEntry(t) == [user |-> tokens[t].sub, exp |-> now + Ticks(BLACKLIST_TTL)]

\* What a client can send as a token or a session id: nothing (0) or one that
\* was issued (a made-up value behaves as an expired one).
ClientIds == 0..nextTok

\* ------------------------------------------------------------ logout (568-612)
\* tok is the bearer token (0: no Authorization header), sid the session_id of
\* the body (0: none).  Lines 572-588: verify_jwt_token and its GET.
LogoutVerify(w, tok, sid) ==
    /\ pc[w] = "idle"
    /\ tok \in ClientIds /\ sid \in ClientIds
    /\ LET l == [NoLoc EXCEPT !.kind = "logout", !.tok = tok, !.sid = sid,
                              !.user = IF Issued(tok) THEN tokens[tok].sub ELSE "nobody"]
           Reject(code) == Finish(w, [Resp(w, code) EXCEPT !.kind = "logout", !.tok = tok])
       IN
       IF tok = 0 THEN Reject("MISSING_TOKEN")
       ELSE IF ~VerifyJwt(tok) THEN Reject("INVALID_TOKEN")
       ELSE Goto(w, "blacklist", l)
    /\ UNCHANGED <<now, stores, rlLimit, rlWindow, history>>

LogoutDone(w) ==
    /\ loggedOut' = IF loc[w].sid = 0 THEN loggedOut
                    ELSE [loggedOut EXCEPT ![loc[w].tok] = TRUE]
    /\ closed' = IF loc[w].sid \in DOMAIN closed
                 THEN [closed EXCEPT ![loc[w].sid] = TRUE] ELSE closed
    /\ Finish(w, [Resp(w, "LOGOUT_OK") EXCEPT !.tok = loc[w].tok, !.sid = loc[w].sid])

\* Lines 590-591: blacklist_token stores the entry.
LogoutBlacklist(w) ==
    /\ pc[w] = "blacklist"
    /\ blacklist' = [blacklist EXCEPT ![loc[w].tok] = BlacklistEntry(loc[w].tok)]
    /\ revoked' = [revoked EXCEPT ![loc[w].tok] = TRUE]
    /\ IF loc[w].sid = 0
       THEN LogoutDone(w)
       ELSE Goto(w, "closesession", loc[w]) /\ UNCHANGED <<loggedOut, closed>>
    /\ UNCHANGED <<now, rlLimit, rlWindow, acct, rate, captcha, nextCap, tokens, sessions,
                   nextTok, admits, nfail, capWins, refused>>

\* Lines 110-114: the SETEX raises (store unreachable); blacklist_token logs the
\* error and returns normally.
LogoutBlacklistFails(w) ==
    /\ pc[w] = "blacklist"
    /\ IF loc[w].sid = 0
       THEN LogoutDone(w)
       ELSE Goto(w, "closesession", loc[w]) /\ UNCHANGED <<loggedOut, closed>>
    /\ UNCHANGED <<now, stores, rlLimit, rlWindow, admits, nfail, capWins, refused,
                   revoked>>

\* Lines 594-604: DELETE session:<session_id>, success.
LogoutCloseSession(w) ==
    /\ pc[w] = "closesession"
    /\ sessions' = [i \in DOMAIN sessions |-> IF i = loc[w].sid THEN NilEntry ELSE sessions[i]]
    /\ LogoutDone(w)
    /\ UNCHANGED <<now, rlLimit, rlWindow, acct, rate, captcha, nextCap, tokens,
                   blacklist, nextTok, admits, nfail, capWins, refused, revoked>>

\* Lines 596, 606-612: the DELETE raises; the handler answers INTERNAL_ERROR.
LogoutCloseSessionFails(w) ==
    /\ pc[w] = "closesession"
    /\ Finish(w, [Resp(w, "INTERNAL_ERROR") EXCEPT !.tok = loc[w].tok, !.sid = loc[w].sid])
    /\ UNCHANGED <<now, stores, rlLimit, rlWindow, history>>

\* ------------------------------------------------------ verify_token (679-715)
VerifyToken(w, tok) ==
    /\ pc[w] = "idle"
    /\ tok \in ClientIds
    /\ LET Answer(code) == Finish(w, [Resp(w, code) EXCEPT !.kind = "verify", !.tok = tok])
       IN
       IF tok = 0 THEN Answer("MISSING_TOKEN")
       ELSE IF VerifyJwt(tok) THEN Answer("VALID")
       ELSE Answer("INVALID")
    /\ UNCHANGED <<now, stores, rlLimit, rlWindow, history>>

\* --------------------------------- generate_jwt_token at clock resolution
\* In the token specification the clock counts readings of the system clock,
\* SubSecond of them per second, so that the two datetime.utcnow() calls of
\* generate_jwt_token are two readings.
Seconds(t) == t \div SubSecond

\* str(user_data['id']): the decimal digits of the id.
RECURSIVE Str(_)
Str(n) == IF n < 10 THEN <<n>> ELSE Append(Str(n \div 10), n % 10)

\* The rows generate_jwt_token is called with.
UserIds == {7, 12}
Emails == {"a@example.com", "b@example.com"}
Roles == {"user", "admin"}
UserData == [id : UserIds, username : Usernames, email : Emails, user_role : Roles]

\* Line 83 ('exp', from the first reading) and jwt.encode's conversion of a
\* datetime to whole seconds.
ExpClaim(expReading) == Seconds(expReading) + JWT_EXPIRATION_HOURS * SecondsPerHour

\* Lines 78-87: the payload as jwt.encode signs it.
JwtPayload(data, expReading, iatReading, jti) ==
    [user_id |-> Str(data.id), username |-> data.username, email |-> data.email,
     role |-> data.user_role, exp |-> ExpClaim(expReading),
     iat |-> Seconds(iatReading), jti |-> jti]

\* Line 83: the first clock reading of generate_jwt_token(data).
GenerateJwtExp(w, data) ==
    /\ pc[w] = "idle"
    /\ nextTok < TokenCap
    /\ Goto(w, "iat", [kind |-> "jwt", data |-> data, expReading |-> now])
    /\ UNCHANGED <<now, stores, rlLimit, rlWindow, history>>

\* Lines 84-87: the second reading, the fresh jti, jwt.encode.
GenerateJwtIat(w) ==
    /\ pc[w] = "iat"
    /\ nextTok' = nextTok + 1
    /\ tokens' = [tokens EXCEPT ![nextTok + 1] =
                     JwtPayload(loc[w].data, loc[w].expReading, now, nextTok + 1)]
    /\ pc' = [pc EXCEPT ![w] = "idle"]
    /\ loc' = [loc EXCEPT ![w] = NoLoc]
    /\ seen' = seen
    /\ out' = [kind |-> "token", code |-> "ISSUED", tok |-> nextTok + 1,
               data |-> loc[w].data]
    /\ UNCHANGED <<now, rlLimit, rlWindow, acct, rate, captcha, nextCap, sessions,
                   blacklist, history>>

\* Lines 93-99 on a token of GenerateJwtIat: jwt.decode fails once exp has been
\* reached; a blacklisted jti yields None; otherwise the payload.
JwtValid(t) ==
    /\ Issued(t)
    /\ Seconds(now) < tokens[t].exp
    /\ blacklist[t] = NilEntry

VerifyJwtToken(w, t) ==
    /\ pc[w] = "idle"
    /\ t \in 1..nextTok
    /\ pc' = pc /\ loc' = loc /\ seen' = seen
    /\ out' = IF JwtValid(t)
              THEN [kind |-> "claims", code |-> "PAYLOAD", tok |-> t, claims |-> tokens[t]]
              ELSE [kind |-> "claims", code |-> "NONE", tok |-> t]
    /\ UNCHANGED <<now, stores, rlLimit, rlWindow, history>>

\* Lines 110-112 on a token of GenerateJwtIat.
BlacklistJwtToken(w, t) ==
    /\ pc[w] = "idle"
    /\ t \in 1..nextTok
    /\ blacklist' = [blacklist EXCEPT ![t] =
                        [user |-> tokens[t].username,
                         exp |-> now + BLACKLIST_TTL * SubSecond]]
    /\ revoked' = [revoked EXCEPT ![t] = TRUE]
    /\ pc' = pc /\ loc' = loc /\ seen' = seen
    /\ out' = [kind |-> "revoke", code |-> "DONE", tok |-> t]
    /\ UNCHANGED <<now, rlLimit, rlWindow, acct, rate, captcha, nextCap, tokens, sessions,
                   nextTok, admits, nfail, capWins, refused, loggedOut, closed>>

\* The clock moves on by one reading or, between calls, by a token lifetime,
\* within MaxSubSteps readings of a multiple of the lifetime.
JwtLifetime == JWT_EXPIRATION_HOURS * SecondsPerHour * SubSecond
JwtClock ==
    /\ \E step \in {1, JwtLifetime} :
          /\ step = 1 \/ \A w \in Workers : pc[w] = "idle"
          /\ (now + step) % JwtLifetime <= MaxSubSteps
          /\ now + step <= JwtLifetime + MaxSubSteps
          /\ now' = now + step
          /\ blacklist' = ExpireEntries(blacklist, now + step)
    /\ out' = NoResp
    /\ UNCHANGED <<acct, rate, captcha, nextCap, tokens, sessions, nextTok, rlLimit,
                   rlWindow, pc, loc, history, seen>>

\* ------------------------------------------------ calculate_risk_score (196-218)
\* Addresses as dotted quads; NoAddress is the empty string of
\* client_info.get('ip_address', '').
NoAddress == <<>>
Addresses == {NoAddress, <<127, 0, 0, 1>>, <<192, 168, 1, 5>>, <<10, 0, 0, 7>>,
              <<172, 16, 0, 9>>, <<192, 0, 2, 1>>, <<8, 8, 8, 8>>}
Fingerprints == {"none", "", "fp-1"}
Hours == 0..23

\* Line 202: ip.startswith('127.') or ip.startswith('192.168.')
LocalIp(ip) ==
    \/ Len(ip) >= 1 /\ ip[1] = 127
    \/ Len(ip) >= 2 /\ ip[1] = 192 /\ ip[2] = 168

\* Line 206: not client_info.get('device_fingerprint') (header absent or empty)
NoFingerprint(fp) == fp \in {"none", ""}

\* Line 215: hour < 6 or hour > 22
UnusualHour(hour) == hour < 6 \/ hour > 22

Min(a, b) == IF a < b THEN a ELSE b

\* Lines 198-218.
RiskScore(ip, fp, success, hour) ==
    Min((IF LocalIp(ip) THEN 10 ELSE 0) + (IF NoFingerprint(fp) THEN 20 ELSE 0)
        + (IF ~success THEN 30 ELSE 0) + (IF UnusualHour(hour) THEN 15 ELSE 0), 100)

\* One call of calculate_risk_score on the inputs held in loc[w].
CalculateRiskScore(w) ==
    /\ pc[w] = "risk"
    /\ pc' = [pc EXCEPT ![w] = "scored"]
    /\ loc' = loc /\ seen' = seen
    /\ out' = [kind |-> "risk", code |-> "SCORE",
               score |-> RiskScore(loc[w].ip, loc[w].fp, loc[w].success, loc[w].hour)]
    /\ UNCHANGED <<now, stores, rlLimit, rlWindow, history>>

\* ------------------------------------------------------------------- clock
Tick(horizon) ==
    /\ now < horizon
    /\ now' = now + 1
    /\ rate' = ExpireRate(rate, now + 1)
    /\ captcha' = ExpireCaptcha(captcha, now + 1)
    /\ sessions' = ExpireEntries(sessions, now + 1)
    /\ blacklist' = ExpireEntries(blacklist, now + 1)
    /\ admits' = [k \in Idents |->
                     IF ExpireRate(rate, now + 1)[k].val = 0 /\ rate[k].val > 0
                     THEN 0 ELSE admits[k]]
    /\ out' = NoResp
    /\ UNCHANGED <<acct, nextCap, tokens, nextTok, rlLimit, rlWindow, pc, loc,
                   nfail, capWins, refused, revoked, loggedOut, closed, seen>>

\* ------------------------------------------------------------------- specs
\* Empty stores with room for the token and session ids of `ids`.
InitData(ids) ==
    /\ now = 0
    /\ rate = [k \in Idents |-> NilRate]
    /\ captcha = [i \in CaptchaIds |-> NilCaptcha]
    /\ nextCap = 0
    /\ tokens = [i \in ids |-> NilToken]
    /\ sessions = [i \in ids |-> NilEntry]
    /\ blacklist = [i \in ids |-> NilEntry]
    /\ nextTok = 0
    /\ admits = [k \in Idents |-> 0]
    /\ nfail = [u \in Usernames |-> 0]
    /\ capWins = [i \in CaptchaIds |-> 0]
    /\ refused = [k \in Idents |-> FALSE]
    /\ revoked = [i \in ids |-> FALSE]
    /\ loggedOut = [i \in ids |-> FALSE]
    /\ closed = [i \in ids |-> FALSE]

\* No request in progress.
InitWorkers ==
    /\ pc = [w \in Workers |-> "idle"]
    /\ loc = [w \in Workers |-> NoLoc]
    /\ out = NoResp

InitStores == InitData(TokenIds) /\ InitWorkers

NoAccount == [exists |-> FALSE, active |-> FALSE, locked |-> FALSE, failed |-> 0,
              enrolled |-> FALSE]
NewAccount(active, enrolled) ==
    [exists |-> TRUE, active |-> active, locked |-> FALSE, failed |-> 0,
     enrolled |-> enrolled]

InitRL ==
    /\ InitStores
    /\ seen = NotSeen
    /\ acct = [u \in Usernames |-> NoAccount]
    /\ rlLimit \in 1..MaxLimit
    /\ rlWindow \in {n * TickSeconds : n \in 1..MaxWindowTicks}

NextRL ==
    \/ \E w \in Workers, k \in Idents : CheckRateLimitStart(w, k)
    \/ \E w \in Workers : CheckRateLimitFinish(w)
    \/ Tick(MaxTime)

SpecRL == InitRL /\ [][NextRL]_vars

\* The same calls made one after the other: a call starts only when no other
\* call is between its read and its write.
NextRLSeq ==
    \/ \E w \in Workers, k \in Idents :
          /\ \A v \in Workers : pc[v] # "rl"
          /\ CheckRateLimitStart(w, k)
    \/ \E w \in Workers : CheckRateLimitFinish(w)
    \/ Tick(MaxTime)

SpecRLSeq == InitRL /\ [][NextRLSeq]_vars

\* The login system.  Requests name alice, who has no account, an inactive
\* one or an active one.
LoginNames == {"alice"}

Init ==
    /\ InitStores
    /\ seen = NotSeen
    /\ \E row \in {NoAccount, NewAccount(FALSE, TRUE), NewAccount(TRUE, TRUE)} :
          acct = [u \in Usernames |-> IF u \in LoginNames THEN row ELSE NoAccount]
    /\ rlLimit = LOGIN_RATE_LIMIT
    /\ rlWindow = LOGIN_RATE_WINDOW

Next ==
    \/ \E w \in Workers, u \in LoginNames, c \in 0..MaxCaptchas : LoginStart(w, u, c)
    \/ \E w \in Workers : LoginRateLimit(w)
    \/ \E w \in Workers : LoginLookup(w)
    \/ \E w \in Workers : LoginCaptchaRequired(w)
    \/ \E w \in Workers : LoginCaptchaGet(w)
    \/ \E w \in Workers : LoginCaptchaDelete(w)
    \/ \E w \in Workers : LoginCaptchaInvalid(w)
    \/ \E w \in Workers : LoginWrongPassword(w)
    \/ \E w \in Workers : LoginRightPassword(w)
    \/ \E w \in Workers : LoginSession(w)
    \/ \E w \in Workers, u \in LoginNames : BiometricLookup(w, u)
    \/ \E w \in Workers : BiometricSession(w)

Spec == Init /\ [][Next]_vars

\* The token service: alice and bob have active accounts (bob enrolled for
\* biometrics or not), sign in with their biometric template, verify their
\* tokens and log out.
TokenNames == {"alice", "bob"}
TokenWorkers == {"w1"}

InitTok ==
    /\ InitStores
    /\ seen = NotSeen
    /\ \E e \in BOOLEAN :
          acct = [u \in Usernames |-> NewAccount(TRUE, u = "alice" \/ e)]
    /\ rlLimit = LOGIN_RATE_LIMIT
    /\ rlWindow = LOGIN_RATE_WINDOW

NextTok ==
    \/ \E w \in TokenWorkers, u \in TokenNames : BiometricLookup(w, u)
    \/ \E w \in TokenWorkers : BiometricSession(w)
    \/ \E w \in TokenWorkers, t \in 0..MaxTokens, i \in 0..MaxTokens : LogoutVerify(w, t, i)
    \/ \E w \in TokenWorkers : LogoutBlacklist(w)
    \/ \E w \in TokenWorkers : LogoutBlacklistFails(w)
    \/ \E w \in TokenWorkers : LogoutCloseSession(w)
    \/ \E w \in TokenWorkers : LogoutCloseSessionFails(w)
    \/ \E w \in TokenWorkers, t \in 0..MaxTokens : VerifyToken(w, t)
    \/ Tick(MaxClock)

SpecTok == InitTok /\ [][NextTok]_vars

\* The login system with store failures: two concurrent requests for alice, of
\* which the second never carries captcha fields.
NextFault ==
    \/ \E w \in TokenWorkers, u \in LoginNames, c \in 0..MaxCaptchas : LoginStart(w, u, c)
    \/ \E w \in Workers \ TokenWorkers, u \in LoginNames : LoginStart(w, u, 0)
    \/ \E w \in Workers : LoginRateLimit(w)
    \/ \E w \in Workers : LoginLookup(w)
    \/ \E w \in Workers : LoginCaptchaRequired(w)
    \/ \E w \in Workers : LoginCaptchaGet(w)
    \/ \E w \in Workers : LoginCaptchaDelete(w)
    \/ \E w \in Workers : LoginCaptchaInvalid(w)
    \/ \E w \in Workers : LoginWrongPassword(w)
    \/ \E w \in Workers : LoginRightPassword(w)
    \/ \E w \in Workers : LoginSession(w)
    \/ \E w \in Workers, u \in LoginNames : BiometricLookup(w, u)
    \/ \E w \in Workers : BiometricSession(w)
    \/ \E w \in Workers : LoginStoreFails(w)
    \/ \E w \in Workers : BiometricStoreFails(w)

SpecFault == Init /\ [][NextFault]_vars

\* Sessions and their owners: alice and bob both sign in with their biometric
\* template and log out, naming any session id handed out so far.
OwnerIds == 1..(MaxTokens + 1)

InitOwn ==
    /\ InitData(OwnerIds)
    /\ InitWorkers
    /\ seen = NotSeen
    /\ acct = [u \in Usernames |-> NewAccount(TRUE, TRUE)]
    /\ rlLimit = LOGIN_RATE_LIMIT
    /\ rlWindow = LOGIN_RATE_WINDOW

NextOwn ==
    \/ \E w \in TokenWorkers, u \in TokenNames : BiometricLookup(w, u)
    \/ \E w \in TokenWorkers : BiometricSession(w)
    \/ \E w \in TokenWorkers, t \in OwnerIds, i \in OwnerIds : LogoutVerify(w, t, i)
    \/ \E w \in TokenWorkers : LogoutBlacklist(w)
    \/ \E w \in TokenWorkers : LogoutCloseSession(w)
    \/ Tick(MaxClock)

SpecOwn == InitOwn /\ [][NextOwn]_vars

\* Token issue and verification at clock resolution.
InitJwt ==
    /\ InitStores
    /\ seen = NotSeen
    /\ acct = [u \in Usernames |-> NoAccount]
    /\ rlLimit = LOGIN_RATE_LIMIT
    /\ rlWindow = LOGIN_RATE_WINDOW

NextJwt ==
    \/ \E w \in TokenWorkers, data \in UserData : GenerateJwtExp(w, data)
    \/ \E w \in TokenWorkers : GenerateJwtIat(w)
    \/ \E w \in TokenWorkers, t \in TokenIds : VerifyJwtToken(w, t)
    \/ \E w \in TokenWorkers, t \in TokenIds : BlacklistJwtToken(w, t)
    \/ JwtClock

SpecJwt == InitJwt /\ [][NextJwt]_vars

\* Two runs of one sequence of wrong-password logins: the k-th request is sent
\* for alice, who has an account, and then, with the same fields, for bob, who
\* has none.  The two names share no key of either store.
MaxPairSteps == 11

InitPair ==
    /\ InitStores
    /\ seen = NoneSeen
    /\ acct = [u \in Usernames |-> IF u = "alice" THEN NewAccount(TRUE, TRUE) ELSE NoAccount]
    /\ rlLimit = LOGIN_RATE_LIMIT
    /\ rlWindow = LOGIN_RATE_WINDOW

NextPair ==
    \/ \E w \in TokenWorkers, c \in 0..MaxCaptchas :
          /\ seen.by["alice"].n = seen.by["bob"].n
          /\ seen.by["alice"].n < MaxPairSteps
          /\ LoginStart(w, "alice", c)
    \/ \E w \in TokenWorkers :
          /\ seen.by["bob"].n < seen.by["alice"].n
          /\ LoginStart(w, "bob", seen.by["alice"].cap)
    \/ \E w \in TokenWorkers : LoginRateLimit(w)
    \/ \E w \in TokenWorkers : LoginLookup(w)
    \/ \E w \in TokenWorkers : LoginCaptchaRequired(w)
    \/ \E w \in TokenWorkers : LoginCaptchaGet(w)
    \/ \E w \in TokenWorkers : LoginCaptchaDelete(w)
    \/ \E w \in TokenWorkers : LoginCaptchaInvalid(w)
    \/ \E w \in TokenWorkers : LoginWrongPassword(w)

SpecPair == InitPair /\ [][NextPair]_vars

\* calculate_risk_score called once on every combination of its inputs.
InitRisk ==
    /\ InitData(TokenIds)
    /\ seen = NotSeen
    /\ acct = [u \in Usernames |-> NoAccount]
    /\ rlLimit = LOGIN_RATE_LIMIT
    /\ rlWindow = LOGIN_RATE_WINDOW
    /\ out = NoResp
    /\ pc = [w \in Workers |-> IF w \in TokenWorkers THEN "risk" ELSE "idle"]
    /\ \E ip \in Addresses, fp \in Fingerprints, success \in BOOLEAN, hour \in Hours :
          loc = [w \in Workers |->
                    IF w \in TokenWorkers
                    THEN [kind |-> "risk", ip |-> ip, fp |-> fp, success |-> success,
                          hour |-> hour]
                    ELSE NoLoc]

NextRisk == \E w \in TokenWorkers : CalculateRiskScore(w)

SpecRisk == InitRisk /\ [][NextRisk]_vars

\* ------------------------------------------------------------------ claims
\* C1: under every interleaving of concurrent check_rate_limit calls on one
\* identifier, at most `limit` calls of a window are admitted and the stored
\* counter never exceeds `limit`.
C1_AtMostLimitAdmitted ==
    \A k \in Idents : rate[k].val <= rlLimit /\ admits[k] <= rlLimit

\* C9: called sequentially, the counter counts the admissions of the window
\* and never passes `limit`; a call is refused exactly when the counter it read
\* had reached `limit`, and a refusal changes neither counter nor expiry; a
\* call that finds no counter is admitted and starts one at 1 with a fresh TTL.
C9_CounterCountsAdmissions ==
    /\ \A k \in Idents :
        /\ admits[k] <= rlLimit
        /\ rate[k].val > 0 => rate[k].val = admits[k]
        /\ rate[k].val = 0 => admits[k] = 0
    /\ \A w \in Workers :
        (pc[w] = "rl" /\ rate[loc[w].user].val > 0) =>
            /\ loc[w].cur = "full" <=> rate[loc[w].user].val = rlLimit
            /\ loc[w].cur = "below" <=> rate[loc[w].user].val < rlLimit

C9_CallEffect ==
    \A w \in Workers :
        (pc[w] = "rl" /\ pc'[w] = "idle") =>
            LET k == loc[w].user IN
            /\ out'.code = "FALSE" <=> loc[w].cur = "full"
            /\ out'.code = "TRUE" <=> loc[w].cur # "full"
            /\ out'.code = "FALSE" => rate' = rate
            /\ loc[w].cur = "none" =>
                   rate'[k] = [val |-> 1, exp |-> now + Ticks(rlWindow)]
            /\ loc[w].cur = "below" =>
                   (rate'[k].val = rate[k].val + 1 /\ rate'[k].exp = rate[k].exp)

C9_SequentialWindow == [](C9_CounterCountsAdmissions) /\ [][C9_CallEffect]_vars

\* A call was refused at the limit, the window elapsed, and the next call was
\* admitted and started a new counter at 1.
C9_Witness ==
    /\ rlLimit >= 2
    /\ refused["alice"]
    /\ out.code = "TRUE"
    /\ admits["alice"] = 1
    /\ rate["alice"] = [val |-> 1, exp |-> now + Ticks(rlWindow)]

\* C2: under every interleaving, each failed credential check adds exactly one
\* to the stored count and recomputes the lock from the new count: after k
\* failed checks since the last successful login the stored count is k (the
\* count starts at 0 and a success resets it) and locked == (k >= 5).
C2_NoLostUpdate ==
    \A u \in Usernames :
        acct[u].exists =>
            /\ acct[u].failed = nfail[u]
            /\ acct[u].locked = (nfail[u] >= MAX_LOGIN_ATTEMPTS)

\* Two requests that both read the row unlocked have both failed: the count
\* passed the threshold, which only overlapping requests can do.
C2_Witness == nfail["alice"] = MAX_LOGIN_ATTEMPTS + 1 /\ acct["alice"].failed = nfail["alice"]

\* C3: for every captcha id at most one verify_captcha call returns True.
C3_AtMostOneSuccess == \A i \in CaptchaIds : capWins[i] <= 1

\* C4: after N failed credential checks in a row from count 0, the count is N
\* and the account is unlocked for N < 5 and locked at N = 5.
C4_LockAtFive ==
    \A u \in Usernames : \A n \in 0..MAX_LOGIN_ATTEMPTS :
        (acct[u].exists /\ nfail[u] = n) =>
            /\ acct[u].failed = n
            /\ n < MAX_LOGIN_ATTEMPTS => ~acct[u].locked
            /\ n = MAX_LOGIN_ATTEMPTS => acct[u].locked

C4_Witness ==
    /\ nfail["alice"] = MAX_LOGIN_ATTEMPTS
    /\ acct["alice"].locked
    /\ out.code = "ACCOUNT_LOCKED" /\ out.snap = MAX_LOGIN_ATTEMPTS - 1

\* C5: a login answers success only after its own UPDATE has set the count to
\* 0 and the lock to false, whatever the row held before.
C5_ResetStep ==
    \A w \in Workers :
        /\ (pc[w] # "session" /\ pc'[w] = "session") =>
              /\ pc[w] = "cred"
              /\ acct'[loc[w].user].failed = 0
              /\ acct'[loc[w].user].locked = FALSE
        /\ (pc[w] = "session" /\ pc'[w] = "idle") =>
              (out'.code = "SUCCESS" /\ out'.kind = "login")
        /\ (pc[w] # "session" /\ pc[w] # "idle" /\ pc'[w] = "idle" /\ loc[w].kind = "login") =>
              out'.code # "SUCCESS"

C5_SuccessResets == [][C5_ResetStep]_vars

\* A request that read a count of 4 has succeeded and left the row at 0.
C5_Witness ==
    \E w \in Workers :
        /\ pc[w] = "session" /\ loc[w].snap = MAX_LOGIN_ATTEMPTS - 1
        /\ acct[loc[w].user].failed = 0 /\ ~acct[loc[w].user].locked

\* C6: in every reachable state, a locked account has at least 5 failed attempts.
C6_LockedImpliesThreshold ==
    \A u \in Usernames : acct[u].locked => acct[u].failed >= MAX_LOGIN_ATTEMPTS

\* The account became locked while a biometric login that had read it unlocked
\* was still in flight.
C6_Witness ==
    /\ acct["alice"].locked /\ acct["alice"].failed = MAX_LOGIN_ATTEMPTS
    /\ \E w \in Workers : pc[w] = "bsession"

\* C8: a login that read a count >= 3 reaches the password check only with a
\* captcha verified in that same request; a login that reads a count >= 3 on
\* an active, unlocked row goes to the captcha gate, never straight to the
\* password check, and without an answer it is rejected with a challenge.
C8_GateBeforeCheck ==
    \A w \in Workers :
        /\ (pc[w] = "cred" /\ loc[w].snap >= CAPTCHA_THRESHOLD) => loc[w].capOK
        /\ pc[w] \in {"capreq", "capget", "capdel", "capinv"} =>
              (loc[w].snap >= CAPTCHA_THRESHOLD /\ ~loc[w].capOK)

C8_LookupStep ==
    \A w \in Workers :
        (pc[w] = "lookup" /\ pc'[w] # "lookup" /\ pc'[w] # "idle") =>
            /\ loc'[w].snap = acct[loc[w].user].failed
            /\ acct[loc[w].user].failed >= CAPTCHA_THRESHOLD => pc'[w] # "cred"
            /\ (acct[loc[w].user].failed >= CAPTCHA_THRESHOLD /\ loc[w].cap = 0) =>
                  pc'[w] = "capreq"

C8_ChallengeStep ==
    \A w \in Workers :
        (pc[w] = "capreq" /\ pc'[w] = "idle") =>
            /\ out'.code = "CAPTCHA_REQUIRED" /\ out'.cap > 0
            /\ captcha'[out'.cap].ans = "sum" /\ captcha[out'.cap].ans = ""
            /\ acct' = acct /\ nfail' = nfail

C7_RevokedStaysInvalid ==
    \A t \in TokenIds : revoked[t] => ~VerifyJwt(t)

\* The revocation entry has expired and the token is still refused.
C7_Witness ==
    \E t \in TokenIds :
        /\ revoked[t] /\ blacklist[t] = NilEntry
        /\ out.kind = "verify" /\ out.tok = t /\ out.code = "INVALID"

\* C10: after a logout with a valid token and a session_id has answered
\* success, the token is never verified again and the session record is gone.
C10_LogoutInvalidates ==
    /\ \A t \in TokenIds : loggedOut[t] => ~VerifyJwt(t)
    /\ \A i \in TokenIds : closed[i] => sessions[i] = NilEntry

\* C11: a token verified before its expiry and unrevoked yields claims whose
\* user_id, username, email and role are those of the account it was issued
\* for, and every issued token has expires_at - issued_at equal to 24 hours.
C11_IssueStep ==
    \A w \in TokenWorkers :
        (pc[w] = "iat" /\ pc'[w] = "idle") =>
            LET t == tokens'[out'.tok] IN
            /\ t.user_id = Str(loc[w].data.id)
            /\ t.username = loc[w].data.username
            /\ t.email = loc[w].data.email
            /\ t.role = loc[w].data.user_role
            /\ t.exp - t.iat = JWT_EXPIRATION_HOURS * SecondsPerHour

C11_VerifyStep ==
    \A t \in TokenIds :
        (out'.kind = "claims" /\ out'.tok = t /\ JwtValid(t)) =>
            (out'.code = "PAYLOAD" /\ out'.claims = tokens[t])

C11_TokenRoundTrip == [][C11_IssueStep /\ C11_VerifyStep]_vars

\* C12: a login naming no account, once admitted by the rate limiter, is
\* answered INVALID_CREDENTIALS by its lookup step and goes no further; that
\* step changes no account row, issues no token and creates no session.
C12_StopsAtLookup ==
    \A w \in Workers :
        (loc[w].kind = "login" /\ ~acct[loc[w].user].exists) => pc[w] \in {"rl", "lookup"}

C12_LookupStep ==
    \A w \in Workers :
        (pc[w] = "lookup" /\ pc'[w] # "lookup" /\ ~acct[loc[w].user].exists) =>
            /\ pc'[w] = "idle"
            /\ out'.kind = "login" /\ out'.code = "INVALID_CREDENTIALS"
            /\ out'.remaining = 0 - 1 /\ out'.cap = 0 /\ out'.tok = 0 /\ out'.sid = 0
            /\ acct' = acct
            /\ tokens' = tokens /\ nextTok' = nextTok /\ sessions' = sessions

C12_UnknownUserRejected == [](C12_StopsAtLookup) /\ [][C12_LookupStep]_vars

\* A login for a name without an account was admitted and rejected.
C12_Witness ==
    /\ ~acct["alice"].exists /\ rate["alice"].val >= 1
    /\ out.kind = "login" /\ out.code = "INVALID_CREDENTIALS"
    /\ nextTok = 0

\* C13: after the same sequence of wrong-password logins the client of the
\* existing account and the client of the missing account have seen the same
\* response at every step: error code, remaining_attempts, attached challenge.
Observable(r) == [code |-> r.code, remaining |-> r.remaining, challenge |-> r.cap > 0]

C13_SameResponses ==
    (seen.on /\ seen.by["alice"].n = seen.by["bob"].n) =>
        Observable(seen.by["alice"].resp) = Observable(seen.by["bob"].resp)

\* C14: no request answers success after one of its store operations failed;
\* for logout: it answers success only if the jti of its token was stored in
\* the revocation list, and a failed session DELETE is answered INTERNAL_ERROR.
C14_SuccessOnlyIfRevoked ==
    (out.kind = "logout" /\ out.code = "LOGOUT_OK") => revoked[out.tok]

C14_DeleteFailureStep ==
    \A w \in TokenWorkers :
        (pc[w] = "closesession" /\ pc'[w] = "idle" /\ sessions' = sessions
         /\ sessions[loc[w].sid] # NilEntry) => out'.code = "INTERNAL_ERROR"

C14_FailureIsInternalError ==
    [](C14_SuccessOnlyIfRevoked) /\ [][C14_DeleteFailureStep]_vars

\* C15: a login whose credential check fails answers ACCOUNT_LOCKED exactly
\* when the stored row is locked right after its own UPDATE, and otherwise
\* INVALID_CREDENTIALS with remaining_attempts = 5 - the stored count.
C15_FailureStep ==
    \A w \in Workers :
        (pc[w] = "cred" /\ pc'[w] = "idle") =>
            LET row == acct'[loc[w].user] IN
            /\ out'.code = "ACCOUNT_LOCKED" <=> row.locked
            /\ ~row.locked =>
                  /\ out'.code = "INVALID_CREDENTIALS"
                  /\ out'.remaining = MAX_LOGIN_ATTEMPTS - row.failed

C15_ResponseMatchesRow == [][C15_FailureStep]_vars

\* C16: while the stored row of an account is locked, no step of a login
\* request clears the lock or passes the credential check for that account.
C16_LockedStep ==
    \A w \in Workers :
        (loc[w].kind = "login" /\ acct[loc[w].user].locked) =>
            /\ acct'[loc[w].user].locked
            /\ pc[w] # "session" => pc'[w] # "session"

C16_LockedStaysLocked == [][C16_LockedStep]_vars

\* C17: every rate_limit counter that exists carries an expiry.
C17_CounterHasExpiry ==
    \A k \in Idents : rate[k].val > 0 => rate[k].exp # NoTTL

\* C18: while the blacklist entry of a token exists, the token has not passed
\* its expires_at.
C18_EntryWithinTokenLife ==
    \A t \in TokenIds : blacklist[t] # NilEntry => now < tokens[t].exp

\* C19: a login consults the rate limiter (limit 10, window 300 s) before it
\* looks up the account; a login the limiter refuses is answered RATE_LIMITED
\* by that step and touches no account row, challenge, token or session.
C19_LimiterFirst ==
    \A w \in Workers :
        (loc[w].kind = "login" /\ pc[w] = "rl") =>
            (loc[w].limit = LOGIN_RATE_LIMIT /\ loc[w].window = LOGIN_RATE_WINDOW)

C19_Step ==
    \A w \in Workers :
        /\ (loc'[w].kind = "login" /\ pc[w] = "idle" /\ pc'[w] # "idle") =>
              (pc'[w] = "rl" /\ acct' = acct /\ captcha' = captcha)
        /\ (pc[w] # "lookup" /\ pc'[w] = "lookup") =>
              (pc[w] = "rl" /\ loc[w].cur # "full")
        /\ (loc[w].kind = "login" /\ pc[w] = "rl" /\ pc'[w] # "rl" /\ loc[w].cur = "full") =>
              /\ pc'[w] = "idle" /\ out'.kind = "login" /\ out'.code = "RATE_LIMITED"
              /\ out'.cap = 0 /\ out'.tok = 0 /\ out'.sid = 0
              /\ acct' = acct /\ rate' = rate
              /\ captcha' = captcha /\ nextCap' = nextCap
              /\ tokens' = tokens /\ nextTok' = nextTok /\ sessions' = sessions

C19_RateLimitBeforeLookup == [](C19_LimiterFirst) /\ [][C19_Step]_vars

\* The eleventh login of the window was refused.
C19_Witness ==
    /\ out.kind = "login" /\ out.code = "RATE_LIMITED"
    /\ rate["alice"].val >= LOGIN_RATE_LIMIT

\* C20: a login at the captcha gate without an answer, or with a wrong one,
\* is rejected with CAPTCHA_REQUIRED or INVALID_CAPTCHA and a challenge that
\* this step stores; the step changes no account row and no other challenge,
\* the one the wrong answer was checked against included.
C20_AtGate ==
    \A w \in Workers :
        /\ pc[w] = "capreq" => (loc[w].cap = 0 /\ loc[w].snap >= CAPTCHA_THRESHOLD)
        /\ pc[w] = "capinv" => (loc[w].cap # 0 /\ loc[w].snap >= CAPTCHA_THRESHOLD)

C20_Step ==
    \A w \in Workers :
        /\ (pc[w] = "capget" /\ pc'[w] = "capinv") => (captcha' = captcha /\ acct' = acct)
        /\ (pc[w] \in {"capreq", "capinv"} /\ pc'[w] # pc[w]) =>
              /\ pc'[w] = "idle"
              /\ out'.code = IF pc[w] = "capreq" THEN "CAPTCHA_REQUIRED" ELSE "INVALID_CAPTCHA"
              /\ out'.cap \in CaptchaIds /\ out'.cap > nextCap
              /\ captcha[out'.cap] = NilCaptcha /\ captcha'[out'.cap].ans = "sum"
              /\ \A i \in CaptchaIds \ {out'.cap} : captcha'[i] = captcha[i]
              /\ acct' = acct /\ nfail' = nfail

C20_RejectedWithNewChallenge == [](C20_AtGate) /\ [][C20_Step]_vars

\* A wrong answer to challenge 1 was rejected with challenge 2, and challenge 1
\* is still there.
C20_Witness ==
    /\ out.code = "INVALID_CAPTCHA" /\ out.cap = 2
    /\ captcha[1].ans = "sum" /\ captcha[2].ans = "sum" /\ capWins[1] = 0
    /\ acct["alice"].failed = CAPTCHA_THRESHOLD

\* C21: calculate_risk_score returns min(100, 10 if the address is loopback or
\* in a private range + 20 if there is no fingerprint + 30 if the attempt
\* failed + 15 if the hour is outside [6, 22)), a value in 0..100.
PrivateOrLoopback(ip) ==
    /\ Len(ip) = 4
    /\ \/ ip[1] = 127
       \/ ip[1] = 10
       \/ ip[1] = 172 /\ ip[2] \in 16..31
       \/ ip[1] = 192 /\ ip[2] = 168

C21_ScoreFormula ==
    \A w \in TokenWorkers :
        pc[w] = "scored" =>
            /\ out.score \in 0..100
            /\ out.score =
                  Min(100, (IF PrivateOrLoopback(loc[w].ip) THEN 10 ELSE 0)
                           + (IF loc[w].fp \in {"none", ""} THEN 20 ELSE 0)
                           + (IF ~loc[w].success THEN 30 ELSE 0)
                           + (IF loc[w].hour \notin 6..21 THEN 15 ELSE 0))

\* C22: a biometric login is checked against the rate limiter before its
\* account lookup: whenever one has passed its lookup or has been answered,
\* the rate_limit counter of its identifier has been written.
C22_BiometricRateChecked ==
    /\ out.kind = "biometric" => \A u \in LoginNames : rate[u].val > 0
    /\ \A w \in Workers : pc[w] = "bsession" => rate[loc[w].user].val > 0

\* C23: between two successful logins at most MAX_LOGIN_ATTEMPTS password
\* checks are made on an account.
C23_AtMostFiveGuesses ==
    \A u \in Usernames : nfail[u] <= MAX_LOGIN_ATTEMPTS

\* C24: a token is issued and a session record stored only by a request that
\* read the account active and not locked and whose own credential check
\* succeeded; a rejected request or one answered INTERNAL_ERROR issues no token
\* and stores no session.
C24_ReadOK(u) == acct[u].exists /\ acct[u].active /\ ~acct[u].locked

C24_Step ==
    /\ \A w \in Workers :
          /\ (pc[w] = "lookup" /\ pc'[w] \notin {"lookup", "idle"}) => C24_ReadOK(loc[w].user)
          /\ (pc[w] # "cred" /\ pc'[w] = "cred") => pc[w] \in {"lookup", "capdel"}
          /\ (pc[w] # "capdel" /\ pc'[w] = "capdel") => pc[w] = "capget"
          /\ (pc[w] # "capget" /\ pc'[w] = "capget") => pc[w] = "lookup"
          /\ (pc[w] # "session" /\ pc'[w] = "session") =>
                pc[w] = "cred" /\ nfail'[loc[w].user] = 0
          /\ (pc[w] # "bsession" /\ pc'[w] = "bsession") =>
                /\ pc[w] = "idle"
                /\ C24_ReadOK(loc'[w].user)
                /\ acct[loc'[w].user].enrolled
    /\ (tokens' # tokens \/ nextTok' # nextTok
           \/ \E i \in DOMAIN sessions : sessions'[i] # sessions[i] /\ sessions'[i] # NilEntry) =>
          \E w \in Workers :
             /\ pc[w] \in {"session", "bsession"} /\ pc'[w] = "idle"
             /\ out'.code = "SUCCESS"
             /\ out'.tok = nextTok' /\ out'.sid = nextTok'
             /\ nextTok' = nextTok + 1
             /\ tokens'[nextTok'].sub = loc[w].user
             /\ sessions'[nextTok'].user = loc[w].user

C24_IssuedOnlyAfterChecks == [][C24_Step]_vars

\* A login answered with a token and a session while another request waits at
\* its password check.
C24_Witness ==
    /\ out.kind = "login" /\ out.code = "SUCCESS"
    /\ tokens[out.tok].sub = "alice" /\ sessions[out.sid].user = "alice"
    /\ \E w \in Workers : pc[w] = "cred"

\* C25: a logout deletes only a session record whose subject is the subject of
\* the bearer token that authorized it; a valid token of one account never
\* removes the session record of another account.
C25_Step ==
    \A w \in Workers :
       (/\ pc[w] = "closesession" /\ pc'[w] = "idle"
        /\ sessions[loc[w].sid] # NilEntry
        /\ sessions'[loc[w].sid] = NilEntry) =>
          sessions[loc[w].sid].user = tokens[loc[w].tok].sub

C25_OwnSessionOnly == [][C25_Step]_vars

====
